---- MODULE Spec2Model ----
(***************************************************************************)
(* substrate-subxt: Client, XtBuilder and the submission pipeline          *)
(* (src/src/lib.rs) together with the Litentry call extension              *)
(* (src/src/srml/litentry.rs), as a state machine.                         *)
(*                                                                         *)
(* Every future the library hands out is a record whose `stage` is the     *)
(* position of that future: "created" (returned to the caller, not yet     *)
(* polled), "connecting" (ws::connect issued), "submitted" (the RPC        *)
(* request written on the connection), then "done", "failed" or            *)
(* "dropped" (the caller dropped the future before it resolved).  The      *)
(* futures are lazy and own what they need: none of them borrows the       *)
(* Client or the XtBuilder it came from, so the caller may hold several    *)
(* at once and drive them in any order.                                    *)
(*                                                                         *)
(* T::Index is a fixed-width unsigned integer.  `nonce + 1.into()` at its  *)
(* largest value wraps in a build without overflow checks and panics in a  *)
(* build with them; both outcomes are steps of the model.                  *)
(***************************************************************************)
EXTENDS Integers, Sequences, FiniteSets, TLC

\* ------------------------------------------------------------------ bounds

\* Largest value of T::Index in the model; the type has IndexMax + 1 values.
IndexMax == 4
\* Calls that return a submission future (submit, submit_and_watch) the
\* caller makes in a run on one builder.
MaxAttempts == 2
\* Calls that return a network future (submissions and reads) the caller
\* makes in a run that also creates clones and builders.
MaxShared == 2

IndexMod == IndexMax + 1
Index == 0 .. IndexMax

\* ------------------------------------------------------------- universes

Signers == {"Alice", "Bob"}
BuilderIds == {"x1", "x2"}
ClientIds == {"c1", "c2"}
StorageKeys == {"set", "zero", "unset"}

\* The metadata a runtime declares: its modules in on-chain order, each with
\* its calls in order and its storage items with their hasher.
System == [name |-> "System", calls |-> <<"remark">>,
           storage |-> <<[name |-> "AccountNonce", hasher |-> "blake2_256"]>>]
Balances == [name |-> "Balances", calls |-> <<"transfer", "set_balance">>,
             storage |-> <<[name |-> "FreeBalance", hasher |-> "blake2_256"],
                           [name |-> "Locks", hasher |-> "twox_128"]>>]
Litentry == [name |-> "Litentry", calls |-> <<"register_identity">>,
             storage |-> << >>]
LitentryNoCall == [name |-> "Litentry", calls |-> << >>, storage |-> << >>]

BlobFull == <<System, Balances, Litentry>>
BlobNoCall == <<System, Balances, LitentryNoCall>>
BlobNoModule == <<System, Balances>>
BlobReordered == <<Litentry, [Balances EXCEPT !.calls = <<"set_balance", "transfer">>],
                   System>>
Blobs == {BlobFull, BlobNoCall, BlobNoModule, BlobReordered}

\* The elements of a sequence and the zero-based position of one of them.
Range(seq) == {seq[i] : i \in DOMAIN seq}
PositionOf(seq, x) == (CHOOSE i \in DOMAIN seq : seq[i] = x) - 1

\* Metadata as the client holds it: module name -> its positional index, its
\* calls by name with their positional index, its storage items by name.
Parse(blob) ==
  [m \in {d.name : d \in Range(blob)} |->
     LET d == CHOOSE d \in Range(blob) : d.name = m
     IN  [index |-> PositionOf(blob, d),
          calls |-> [c \in Range(d.calls) |-> PositionOf(d.calls, c)],
          storage |-> [i \in {t.name : t \in Range(d.storage)} |->
                         LET t == CHOOSE t \in Range(d.storage) : t.name = i
                         IN  [prefix |-> <<m, " ", i>>, hasher |-> t.hasher]]]]

MetaFull == Parse(BlobFull)
MetaNoCall == Parse(BlobNoCall)
MetaNoModule == Parse(BlobNoModule)
Metadatas == {MetaFull, MetaNoCall, MetaNoModule}

\* Option<V>.
Some(v) == [some |-> TRUE, value |-> v]
None == [some |-> FALSE]

\* Result<V, Error>.
Ok(v) == [ok |-> TRUE, value |-> v]
Err(e) == [ok |-> FALSE, error |-> e]

\* The account nonces and the storage the node holds.
NodeNonces == [s \in Signers |-> IF s = "Alice" THEN 1 ELSE IndexMax]
NodeStorage == [k \in StorageKeys |->
                 IF k = "set" THEN Some("v")
                 ELSE IF k = "zero" THEN Some("d0") ELSE None]

\* V::default() of the value type read from storage; the key "zero" holds a
\* stored value equal to it.
DefaultValue == "d0"
\* The defaults the caller passes to fetch_or.
CallerDefaults == {"d1"}

\* The nonces the caller seeds a builder with, and those it passes to
\* set_nonce.
Seeds == {0, IndexMax - 1}
NonceInputs == {0, IndexMax}

NoClient == [state |-> "none"]
NoBuilder == [stage |-> "none"]
\* The nonce of a future that carries none: outside Index.
NoNonce == 0 - 1
\* The item of a future that has not resolved to one.
NoResult == [pending |-> TRUE]

VARIABLES
  node,      \* the remote node: genesis hash, runtime metadata, account nonces, storage
  panicked,  \* the calling thread has panicked (overflow in a checked build)
  build,     \* the future of ClientBuilder::build
  fetched,   \* history: the Client made of the node's answers to build
  clients,   \* ClientIds -> Client value or NoClient
  builders,  \* BuilderIds -> the future of xt and the XtBuilder it resolved to
  hist,      \* history per builder: the nonce at seeding or at the last
             \* set_nonce, the submission calls since, and the attempt made
             \* by the last call that wrote the nonce (0: seeding or set_nonce)
  attempts,  \* the futures of submit / submit_and_watch, in call order
  reads,     \* the futures of fetch / subscribe_*, in call order
  computed,  \* what the caller computed from a client's metadata (encoded
             \* calls, storage keys), in call order
  limit      \* the number of network futures the caller asks for in this run

vars == <<node, panicked, build, fetched, clients, builders, hist, attempts,
          reads, computed, limit>>

\* What no future and no call on a Client or an XtBuilder writes.
envVars == <<node, computed, limit>>
clientVars == <<build, fetched, clients>>

\* ------------------------------------------------------------ arithmetic

\* `+` of T::Index in a build without overflow checks.
IndexAdd(a, b) == (a + b) % IndexMod

\* A submission that does not advance the nonce it read.
NextNonce_same(n) == n

\* lib.rs:256 and lib.rs:270, `nonce + 1.into()`.
NextNonce(n) == IndexAdd(n, 1)

\* `nonce + 1.into()` overflows T::Index.
Overflows(n) == n + 1 > IndexMax

\* ------------------------------------------------------ metadata lookups

\* Metadata::module(name): Ok(module) or Err(ModuleNotFound(name)).
module(md, name) ==
  IF name \in DOMAIN md
  THEN [ok |-> TRUE, index |-> md[name].index, calls |-> md[name].calls,
        storage |-> md[name].storage, name |-> name]
  ELSE [ok |-> FALSE, error |-> "ModuleNotFound"]

\* An encoder that writes the call index before the module index.
call_swapped(mod, name, args) ==
  IF name \in DOMAIN mod.calls
  THEN [ok |-> TRUE, encoded |-> <<mod.calls[name], mod.index>> \o args]
  ELSE [ok |-> FALSE, error |-> "CallNotFound"]

\* ModuleMetadata::call(name, args): Ok(Encoded) or Err(CallNotFound(name)).
\* The payload is the module index, the call index, then the encoded
\* arguments in the order given.
call(mod, name, args) ==
  IF name \in DOMAIN mod.calls
  THEN [ok |-> TRUE, encoded |-> <<mod.index, mod.calls[name]>> \o args]
  ELSE [ok |-> FALSE, error |-> "CallNotFound"]

\* The call is encoded without looking the names up in the metadata.
transfer_call_unchecked(md) == [ok |-> TRUE, encoded |-> << >>]

\* litentry.rs:115-120, the closure `transfer_call`: the two lookups chained
\* with `?`.
transfer_call(md) ==
  LET m == module(md, "Litentry")
  IN  IF ~m.ok THEN m ELSE call(m, "register_identity", << >>)

\* ModuleMetadata::storage(name): Ok(item) or Err(StorageNotFound(name)).
storage(mod, name) ==
  IF name \in DOMAIN mod.storage
  THEN [ok |-> TRUE, prefix |-> mod.storage[name].prefix,
        hasher |-> mod.storage[name].hasher]
  ELSE [ok |-> FALSE, error |-> "StorageNotFound"]

\* The SCALE encoding of a map key, and the digest of a byte string under a
\* named hasher (a term: two digests are equal only for the same hasher and
\* the same bytes).
encode(k) == <<k>>
Hash(hasher, bytes) == [hasher |-> hasher, of |-> bytes]

\* A derivation that hashes the prefix alone, as for a plain value.
storage_key_plain(item, k) == Hash(item.hasher, item.prefix)

\* StorageMap::key(key): the item's hasher over the prefix followed by the
\* encoded key, as tests::test_chain_read_metadata reads it back
\* (lib.rs:407-416).
storage_key(item, k) == Hash(item.hasher, item.prefix \o encode(k))

\* ---------------------------------------------------------------- helpers

\* A clone that asks the node again rather than copying the fields.
clone_refetch(c) == [state |-> "built", genesis_hash |-> node.genesis,
                     metadata |-> node.metadata]

\* Client::clone (lib.rs:127-135): a field-wise copy.
clone(c) == [state |-> "built", genesis_hash |-> c.genesis_hash,
             metadata |-> c.metadata]

Built(c) == clients[c].state = "built"
Ready(b) == builders[b].stage = "ready"

Attempts == 1 .. Len(attempts)
Reads == 1 .. Len(reads)

\* The caller may ask for one more network future.
MayCall == Len(attempts) + Len(reads) < limit

InFlight(a) == a.stage \in {"created", "connecting", "submitted"}

\* -------------------------------------------------- metadata, by the caller

\* client.metadata().module(m) .. .call(name, args) (lib.rs:395, 402-404).
metadata_call(c, m, name, args) ==
  /\ ~panicked
  /\ Built(c)
  /\ Len(computed) < limit
  /\ LET mod == module(clients[c].metadata, m)
         r == IF mod.ok THEN call(mod, name, args) ELSE mod
     IN  computed' = Append(computed,
                            [op |-> "call", md |-> clients[c].metadata,
                             module |-> m, name |-> name, args |-> args,
                             rank |-> Len(computed), result |-> r])
  /\ UNCHANGED <<node, limit, panicked, clientVars, builders, hist, attempts,
                 reads>>

\* client.metadata().module(m) .. .storage(item) .. .get_map() .. .key(k)
\* (lib.rs:410-416, 421-429).
metadata_key(c, m, item, k) ==
  /\ ~panicked
  /\ Built(c)
  /\ Len(computed) < limit
  /\ LET mod == module(clients[c].metadata, m)
         st == IF mod.ok THEN storage(mod, item) ELSE mod
         r == IF st.ok THEN [ok |-> TRUE, key |-> storage_key(st, k)] ELSE st
     IN  computed' = Append(computed,
                            [op |-> "key", md |-> clients[c].metadata,
                             module |-> m, name |-> item, args |-> <<k>>,
                             rank |-> Len(computed), result |-> r])
  /\ UNCHANGED <<node, limit, panicked, clientVars, builders, hist, attempts,
                 reads>>

\* ------------------------------------------------------------ the node

\* The runtime a restarted node runs next.
NextMeta(md) ==
  IF md = MetaFull THEN MetaNoCall
  ELSE IF md = MetaNoCall THEN MetaNoModule ELSE MetaFull

\* The node behind the url is restarted on another chain with another
\* runtime: its genesis hash and its metadata change.
node_restart ==
  /\ ~panicked
  /\ node.genesis = "g1"
  /\ node' = [node EXCEPT !.genesis = "g2", !.metadata = NextMeta(node.metadata)]
  /\ UNCHANGED <<limit, computed, panicked, clientVars, builders, hist,
                 attempts, reads>>

\* ------------------------------------------------- ClientBuilder::build

\* A Client built from the metadata alone, its genesis hash left empty.
build_client_partial(metadata, genesis_hash) ==
  [state |-> "built", genesis_hash |-> "", metadata |-> metadata]

\* lib.rs:109-115, the closure of `.map`: the Client built from the two
\* answers.
build_client(metadata, genesis_hash) ==
  [state |-> "built", genesis_hash |-> genesis_hash, metadata |-> metadata]

\* The build future is polled: connect::<T>(&url) (lib.rs:106, 74-78).
build_poll ==
  /\ ~panicked
  /\ build.stage = "created"
  /\ build' = [build EXCEPT !.stage = "connecting", !.connects = @ + 1]
  /\ UNCHANGED <<envVars, panicked, fetched, clients, builders, hist,
                 attempts, reads>>

\* The connection is up: rpc.metadata().join(rpc.genesis_hash())
\* (lib.rs:107-108).
build_connect_ok ==
  /\ ~panicked
  /\ build.stage = "connecting"
  /\ build' = [build EXCEPT !.stage = "fetching", !.rpcs = @ + 2]
  /\ UNCHANGED <<envVars, panicked, fetched, clients, builders, hist,
                 attempts, reads>>

\* ws::connect fails: `.map_err(Into::into)` (lib.rs:77), and_then is
\* skipped.
build_connect_err ==
  /\ ~panicked
  /\ build.stage = "connecting"
  /\ build' = [build EXCEPT !.stage = "failed", !.error = "connect"]
  /\ UNCHANGED <<envVars, panicked, fetched, clients, builders, hist,
                 attempts, reads>>

\* Both answers arrive: the Client is built (lib.rs:109-115).
build_fetch_ok ==
  /\ ~panicked
  /\ build.stage = "fetching"
  /\ build' = [build EXCEPT !.stage = "done"]
  /\ fetched' = build_client(node.metadata, node.genesis)
  /\ clients' = [clients EXCEPT !["c1"] = build_client(node.metadata, node.genesis)]
  /\ UNCHANGED <<envVars, panicked, builders, hist, attempts, reads>>

\* The requests joined by build (lib.rs:107-108).
Fetches == {"metadata", "genesis_hash"}

\* One of the two joined requests fails: the join fails, no Client.
build_fetch_err(which) ==
  /\ ~panicked
  /\ build.stage = "fetching"
  /\ build' = [build EXCEPT !.stage = "failed", !.error = which]
  /\ UNCHANGED <<envVars, panicked, fetched, clients, builders, hist,
                 attempts, reads>>

\* Client::clone called by the user on a built Client.
client_clone(c, d) ==
  /\ ~panicked
  /\ Built(c)
  /\ ~Built(d)
  /\ clients' = [clients EXCEPT ![d] = clone(clients[c])]
  /\ UNCHANGED <<envVars, panicked, build, fetched, builders, hist, attempts,
                 reads>>

\* ------------------------------------------------- Client reads (futures)

\* The future of a read: self.connect().and_then(|rpc| rpc.<request>)
\* (lib.rs:152, 176, 183, 190-191).
Read(kind, c, key) ==
  [kind |-> kind, c |-> c, key |-> key, default |-> "", stage |-> "created",
   error |-> "", result |-> NoResult, connects |-> 0, rpcs |-> 0]

\* An unwrap_or that forgets the stored value.
unwrap_or_lost(value, default) == default

\* Option::unwrap_or (lib.rs:161).
unwrap_or(value, default) == IF value.some THEN value.value ELSE default

\* Option::unwrap_or_default (lib.rs:169).
unwrap_or_default(value) == unwrap_or(value, DefaultValue)

\* The closure of `.map` each read applies to the item of the inner future
\* (lib.rs:161, 169); fetch and the subscriptions apply none.
Item(r, value) ==
  IF r.kind = "fetch_or" THEN unwrap_or(value, r.default)
  ELSE IF r.kind = "fetch_or_default" THEN unwrap_or_default(value)
  ELSE value

\* A wrapper that turns an error of the read into the default value.
Resolved_lenient(r, res) ==
  IF res.ok THEN [r EXCEPT !.stage = "done", !.result = Item(r, res.value)]
  ELSE IF r.kind \in {"fetch_or", "fetch_or_default"}
  THEN [r EXCEPT !.stage = "done", !.error = res.error,
                 !.result = Item(r, None)]
  ELSE [r EXCEPT !.stage = "failed", !.error = res.error]

\* A read that starts over after an error.
Resolved_retry(r, res) ==
  IF res.ok THEN [r EXCEPT !.stage = "done", !.result = Item(r, res.value)]
  ELSE [r EXCEPT !.stage = "created"]

\* and_then / map on the outcome of the inner future (lib.rs:152, 161, 169):
\* an Ok item goes through the closure, an Err passes untouched.
Resolved(r, res) ==
  IF res.ok THEN [r EXCEPT !.stage = "done", !.result = Item(r, res.value)]
  ELSE [r EXCEPT !.stage = "failed", !.error = res.error]

\* Client::fetch (lib.rs:148-153).
fetch(c, key) ==
  /\ ~panicked
  /\ Built(c)
  /\ MayCall
  /\ reads' = Append(reads, Read("fetch", c, key))
  /\ UNCHANGED <<envVars, panicked, clientVars, builders, hist, attempts>>

\* Client::fetch_or (lib.rs:156-162): fetch(key) mapped with
\* unwrap_or(default).
fetch_or(c, key, default) ==
  /\ ~panicked
  /\ Built(c)
  /\ MayCall
  /\ reads' = Append(reads, [Read("fetch_or", c, key) EXCEPT !.default = default])
  /\ UNCHANGED <<envVars, panicked, clientVars, builders, hist, attempts>>

\* Client::fetch_or_default (lib.rs:165-170): fetch(key) mapped with
\* unwrap_or_default().
fetch_or_default(c, key) ==
  /\ ~panicked
  /\ Built(c)
  /\ MayCall
  /\ reads' = Append(reads, Read("fetch_or_default", c, key))
  /\ UNCHANGED <<envVars, panicked, clientVars, builders, hist, attempts>>

\* Client::subscribe_events (lib.rs:173-177).
subscribe_events(c) ==
  /\ ~panicked
  /\ Built(c)
  /\ MayCall
  /\ reads' = Append(reads, Read("subscribe_events", c, ""))
  /\ UNCHANGED <<envVars, panicked, clientVars, builders, hist, attempts>>

\* Client::subscribe_blocks (lib.rs:180-184).
subscribe_blocks(c) ==
  /\ ~panicked
  /\ Built(c)
  /\ MayCall
  /\ reads' = Append(reads, Read("subscribe_blocks", c, ""))
  /\ UNCHANGED <<envVars, panicked, clientVars, builders, hist, attempts>>

\* Client::subscribe_finalized_blocks (lib.rs:187-192).
subscribe_finalized_blocks(c) ==
  /\ ~panicked
  /\ Built(c)
  /\ MayCall
  /\ reads' = Append(reads, Read("subscribe_finalized_blocks", c, ""))
  /\ UNCHANGED <<envVars, panicked, clientVars, builders, hist, attempts>>

\* First poll: Client::connect (lib.rs:138-140, 74-78).
read_poll(i) ==
  /\ ~panicked
  /\ reads[i].stage = "created"
  /\ reads' = [reads EXCEPT ![i].stage = "connecting", ![i].connects = @ + 1]
  /\ UNCHANGED <<envVars, panicked, clientVars, builders, hist, attempts>>

\* The connection is up: the and_then closure sends the request.
read_connect_ok(i) ==
  /\ ~panicked
  /\ reads[i].stage = "connecting"
  /\ reads' = [reads EXCEPT ![i].stage = "submitted", ![i].rpcs = @ + 1]
  /\ UNCHANGED <<envVars, panicked, clientVars, builders, hist, attempts>>

\* ws::connect fails (lib.rs:77).
read_connect_err(i) ==
  /\ ~panicked
  /\ reads[i].stage = "connecting"
  /\ reads' = [reads EXCEPT ![i] = Resolved(reads[i], Err("connect"))]
  /\ UNCHANGED <<envVars, panicked, clientVars, builders, hist, attempts>>

\* What the node answers to a read.
FetchKinds == {"fetch", "fetch_or", "fetch_or_default"}
Answer(r) == IF r.kind \in FetchKinds THEN node.storage[r.key] ELSE Some("stream")

\* The node answers.
read_rpc_ok(i) ==
  /\ ~panicked
  /\ reads[i].stage = "submitted"
  /\ reads' = [reads EXCEPT ![i] = Resolved(reads[i], Ok(Answer(reads[i])))]
  /\ UNCHANGED <<envVars, panicked, clientVars, builders, hist, attempts>>

\* The request fails.
read_rpc_err(i) ==
  /\ ~panicked
  /\ reads[i].stage = "submitted"
  /\ reads' = [reads EXCEPT ![i] = Resolved(reads[i], Err("rpc"))]
  /\ UNCHANGED <<envVars, panicked, clientVars, builders, hist, attempts>>

\* The node answers with bytes that do not decode as V: rpc.storage::<V>
\* fails.
read_decode_err(i) ==
  /\ ~panicked
  /\ reads[i].stage = "submitted"
  /\ reads[i].kind \in FetchKinds
  /\ node.storage[reads[i].key].some
  /\ reads' = [reads EXCEPT ![i] = Resolved(reads[i], Err("decode"))]
  /\ UNCHANGED <<envVars, panicked, clientVars, builders, hist, attempts>>

\* ------------------------------------------------------------ Client::xt

\* The slot the next builder takes.
FreeSlot(b) ==
  /\ builders[b] = NoBuilder
  /\ b = "x2" => builders["x1"] # NoBuilder

\* A builder that starts at the default nonce whatever the future carries.
XtBuilder_default(client, nonce, signer, asked, connects, rpcs) ==
  [stage |-> "ready", client |-> client, nonce |-> 0, signer |-> signer,
   asked |-> asked, connects |-> connects, rpcs |-> rpcs, error |-> ""]

\* lib.rs:210-216, the closure of `.map`: the XtBuilder made of the cloned
\* client, the nonce the future carries and the signer.  `asked` (the Option
\* the caller passed), `connects` and `rpcs` are the history of the future.
XtBuilder(client, nonce, signer, asked, connects, rpcs) ==
  [stage |-> "ready", client |-> client, nonce |-> nonce, signer |-> signer,
   asked |-> asked, connects |-> connects, rpcs |-> rpcs, error |-> ""]

\* xt(signer, Some(nonce)) (lib.rs:205-207, 210-216): future::ok(nonce),
\* no request is made.
xt_some(c, b, signer, n) ==
  /\ ~panicked
  /\ Built(c)
  /\ FreeSlot(b)
  /\ builders' = [builders EXCEPT
                    ![b] = XtBuilder(clone(clients[c]), n, signer, Some(n), 0, 0)]
  /\ hist' = [hist EXCEPT ![b] = [base |-> n, calls |-> 0, last |-> 0]]
  /\ UNCHANGED <<envVars, panicked, clientVars, attempts, reads>>

\* xt(signer, None) (lib.rs:205, 208): the future of
\* self.account_nonce(signer.public().into()).
xt_none(c, b, signer) ==
  /\ ~panicked
  /\ Built(c)
  /\ FreeSlot(b)
  /\ builders' = [builders EXCEPT
                    ![b] = [stage |-> "created", client |-> clone(clients[c]),
                            nonce |-> NoNonce, signer |-> signer,
                            asked |-> None, connects |-> 0, rpcs |-> 0,
                            error |-> ""]]
  /\ UNCHANGED <<envVars, panicked, clientVars, hist, attempts, reads>>

\* The account_nonce future is polled: Client::connect (lib.rs:138-140, 152).
xt_poll(b) ==
  /\ ~panicked
  /\ builders[b].stage = "created"
  /\ builders' = [builders EXCEPT ![b].stage = "connecting", ![b].connects = @ + 1]
  /\ UNCHANGED <<envVars, panicked, clientVars, hist, attempts, reads>>

\* The connection is up: the storage request for the account nonce is sent.
xt_connect_ok(b) ==
  /\ ~panicked
  /\ builders[b].stage = "connecting"
  /\ builders' = [builders EXCEPT ![b].stage = "submitted", ![b].rpcs = @ + 1]
  /\ UNCHANGED <<envVars, panicked, clientVars, hist, attempts, reads>>

\* The connect fails: the error passes `.map` untouched, no builder.
xt_connect_err(b) ==
  /\ ~panicked
  /\ builders[b].stage = "connecting"
  /\ builders' = [builders EXCEPT ![b].stage = "failed", ![b].error = "connect"]
  /\ UNCHANGED <<envVars, panicked, clientVars, hist, attempts, reads>>

\* SystemStore::account_nonce: the account nonce the node holds for a public
\* identity.
account_nonce(signer) == node.nonce[signer]

\* The node answers: `.map` builds the XtBuilder (lib.rs:210-216).
xt_rpc_ok(b) ==
  /\ ~panicked
  /\ builders[b].stage = "submitted"
  /\ builders' = [builders EXCEPT
                    ![b] = XtBuilder(builders[b].client,
                                     account_nonce(builders[b].signer),
                                     builders[b].signer, None,
                                     builders[b].connects, builders[b].rpcs)]
  /\ hist' = [hist EXCEPT ![b] = [base |-> account_nonce(builders[b].signer),
                                  calls |-> 0, last |-> 0]]
  /\ UNCHANGED <<envVars, panicked, clientVars, attempts, reads>>

\* The request fails: the error passes `.map` untouched, no builder.
xt_rpc_err(b) ==
  /\ ~panicked
  /\ builders[b].stage = "submitted"
  /\ builders' = [builders EXCEPT ![b].stage = "failed", ![b].error = "rpc"]
  /\ UNCHANGED <<envVars, panicked, clientVars, hist, attempts, reads>>

\* ------------------------------------------------------------- XtBuilder

\* XtBuilder::nonce (lib.rs:239-241).
nonce(b) == builders[b].nonce

\* A set_nonce whose write is deferred: the builder keeps its nonce.
SetNonce_deferred(bs, b, n) == bs

\* A nonce counter shared by all builders: the write reaches each of them.
SetNonce_shared(bs, b, n) ==
  [x \in DOMAIN bs |-> IF bs[x].stage = "ready" THEN [bs[x] EXCEPT !.nonce = n]
                       ELSE bs[x]]

\* XtBuilder::set_nonce (lib.rs:244-246): the assignment, on the map of
\* builders.
SetNonce(bs, b, n) == [bs EXCEPT ![b].nonce = n]

\* The caller calls set_nonce(n) on a builder.
set_nonce(b, n) ==
  /\ ~panicked
  /\ Ready(b)
  /\ builders' = SetNonce(builders, b, n)
  /\ hist' = [hist EXCEPT ![b] = [base |-> n, calls |-> 0, last |-> 0]]
  /\ UNCHANGED <<envVars, panicked, clientVars, attempts, reads>>

\* lib.rs:253-255 and 267-269: what the returned future owns, copied from
\* the builder before set_nonce runs; `base` and `k` are history (the nonce
\* at seeding or at the last set_nonce, and the rank of this call since).
Submission(b, kind, via, c) ==
  [kind |-> kind, via |-> via, b |-> b, call |-> c,
   signer |-> builders[b].signer,
   nonce |-> builders[b].nonce,
   genesis_hash |-> builders[b].client.genesis_hash,
   stage |-> "created", error |-> "", connects |-> 0, rpcs |-> 0,
   base |-> hist[b].base, k |-> hist[b].calls + 1]

\* The body shared by submit and submit_and_watch (lib.rs:253-259 and
\* 267-273): copy signer, nonce and genesis hash, set_nonce(nonce + 1), and
\* return the future connect().and_then(..).  `nonce + 1.into()` at the
\* largest Index wraps in a build without overflow checks and panics, before
\* set_nonce, in a build with them.
Submit(b, kind, via, c) ==
  /\ ~panicked
  /\ Ready(b)
  /\ MayCall
  /\ \/ /\ builders' = SetNonce(builders, b, NextNonce(nonce(b)))
        /\ attempts' = Append(attempts, Submission(b, kind, via, c))
        /\ hist' = [hist EXCEPT ![b].calls = @ + 1,
                                ![b].last = Len(attempts) + 1]
        /\ UNCHANGED panicked
     \/ /\ Overflows(nonce(b))
        /\ panicked' = TRUE
        /\ UNCHANGED <<builders, attempts, hist>>
  /\ UNCHANGED <<envVars, clientVars, reads>>

\* A call the caller encoded itself.
TransferCall == <<"Balances", "transfer">>

\* XtBuilder::submit (lib.rs:249-260).
submit(b) == Submit(b, "submit", "submit", TransferCall)

\* XtBuilder::submit_and_watch (lib.rs:263-274).
submit_and_watch(b) == Submit(b, "watch", "submit_and_watch", TransferCall)

\* litentry.rs:123, `Box::new(future::err(err))`: a future that holds the
\* lookup error and nothing else.
LookupFailure(b, err) ==
  [kind |-> "submit", via |-> "register_identity", b |-> b, call |-> << >>,
   signer |-> builders[b].signer, nonce |-> NoNonce, genesis_hash |-> "",
   stage |-> "failed", error |-> err, connects |-> 0, rpcs |-> 0,
   base |-> hist[b].base, k |-> 0]

\* LitentryCalls::register_identity (litentry.rs:111-126).
register_identity(b) ==
  /\ Ready(b)
  /\ LET r == transfer_call(builders[b].client.metadata)
     IN  IF r.ok
         THEN Submit(b, "submit", "register_identity", r.encoded)
         ELSE /\ ~panicked
              /\ MayCall
              /\ attempts' = Append(attempts, LookupFailure(b, r.error))
              /\ UNCHANGED <<envVars, panicked, clientVars, builders, hist,
                             reads>>

\* ------------------------------------------------- the submission future

\* What an error of the future does to the builders: the closure owns
\* copies only (lib.rs:257-259), the builder is not touched.
on_error(bs, a) == bs

\* A drop guard that gives the nonce back when nothing was written yet.
on_drop_rollback(bs, a) ==
  IF a.rpcs = 0 THEN [bs EXCEPT ![a.b].nonce = a.nonce] ELSE bs

\* What dropping the future does to the builders: nothing, the future does
\* not refer to the builder (lib.rs:252, 257-259).
on_drop(bs, a) == bs

\* A first poll that sends the extrinsic at once, over no connection.
attempt_poll_eager(i) ==
  /\ ~panicked
  /\ attempts[i].stage = "created"
  /\ attempts' = [attempts EXCEPT ![i].stage = "submitted", ![i].rpcs = @ + 1]
  /\ UNCHANGED <<envVars, panicked, clientVars, builders, hist, reads>>

\* First poll of connect().and_then(..): ws::connect is issued
\* (lib.rs:257-258, 138-140, 74-78).
attempt_poll(i) ==
  /\ ~panicked
  /\ attempts[i].stage = "created"
  /\ attempts' = [attempts EXCEPT ![i].stage = "connecting", ![i].connects = @ + 1]
  /\ UNCHANGED <<envVars, panicked, clientVars, builders, hist, reads>>

\* The connection is up: the and_then closure sends the extrinsic
\* (lib.rs:259, 271-273).
attempt_connect_ok(i) ==
  /\ ~panicked
  /\ attempts[i].stage = "connecting"
  /\ attempts' = [attempts EXCEPT ![i].stage = "submitted", ![i].rpcs = @ + 1]
  /\ UNCHANGED <<envVars, panicked, clientVars, builders, hist, reads>>

\* ws::connect fails: the error is the future's result (lib.rs:77).
attempt_connect_err(i) ==
  /\ ~panicked
  /\ attempts[i].stage = "connecting"
  /\ attempts' = [attempts EXCEPT ![i].stage = "failed", ![i].error = "connect"]
  /\ builders' = on_error(builders, attempts[i])
  /\ UNCHANGED <<envVars, panicked, clientVars, hist, reads>>

\* The node acknowledges the extrinsic (submit) or reports its inclusion
\* (submit_and_watch).
attempt_rpc_ok(i) ==
  /\ ~panicked
  /\ attempts[i].stage = "submitted"
  /\ attempts' = [attempts EXCEPT ![i].stage = "done"]
  /\ UNCHANGED <<envVars, panicked, clientVars, builders, hist, reads>>

\* The RPC call returns an error.
attempt_rpc_err(i) ==
  /\ ~panicked
  /\ attempts[i].stage = "submitted"
  /\ attempts' = [attempts EXCEPT ![i].stage = "failed", ![i].error = "rpc"]
  /\ builders' = on_error(builders, attempts[i])
  /\ UNCHANGED <<envVars, panicked, clientVars, hist, reads>>

\* The caller drops the future before it resolved.
attempt_drop(i) ==
  /\ ~panicked
  /\ InFlight(attempts[i])
  /\ attempts' = [attempts EXCEPT ![i].stage = "dropped"]
  /\ builders' = on_drop(builders, attempts[i])
  /\ UNCHANGED <<envVars, panicked, clientVars, hist, reads>>

\* ------------------------------------------------------- specifications

\* Nothing is built yet: ClientBuilder::new().build() returned its future.
InitNew(mds, lim) ==
  /\ node \in [genesis : {"g1"}, metadata : mds, nonce : {NodeNonces},
               storage : {NodeStorage}]
  /\ panicked = FALSE
  /\ build = [stage |-> "created", error |-> "", connects |-> 0, rpcs |-> 0]
  /\ fetched = NoClient
  /\ clients = [c \in ClientIds |-> NoClient]
  /\ builders = [b \in BuilderIds |-> NoBuilder]
  /\ hist = [b \in BuilderIds |-> [base |-> NoNonce, calls |-> 0, last |-> 0]]
  /\ attempts = << >>
  /\ reads = << >>
  /\ computed = << >>
  /\ limit = lim

\* build resolved: a Client made of the node's answers, no builder yet.
InitBuilt(mds, lim) ==
  /\ node \in [genesis : {"g1"}, metadata : mds, nonce : {NodeNonces},
               storage : {NodeStorage}]
  /\ panicked = FALSE
  /\ build = [stage |-> "done", error |-> "", connects |-> 1, rpcs |-> 2]
  /\ fetched = build_client(node.metadata, node.genesis)
  /\ clients = [c \in ClientIds |->
                  IF c = "c1" THEN build_client(node.metadata, node.genesis)
                  ELSE NoClient]
  /\ builders = [b \in BuilderIds |-> NoBuilder]
  /\ hist = [b \in BuilderIds |-> [base |-> NoNonce, calls |-> 0, last |-> 0]]
  /\ attempts = << >>
  /\ reads = << >>
  /\ computed = << >>
  /\ limit = lim

\* One builder on a built client: seeding, set_nonce, the two submissions
\* and their futures, up to MaxAttempts of them at once.
Init == InitBuilt({MetaFull}, MaxAttempts)

Next ==
  \/ \E n \in Seeds : xt_some("c1", "x1", "Alice", n)
  \/ \E n \in NonceInputs : set_nonce("x1", n)
  \/ submit("x1")
  \/ submit_and_watch("x1")
  \/ \E i \in Attempts : attempt_poll(i)
  \/ \E i \in Attempts : attempt_connect_ok(i)
  \/ \E i \in Attempts : attempt_connect_err(i)
  \/ \E i \in Attempts : attempt_rpc_ok(i)
  \/ \E i \in Attempts : attempt_rpc_err(i)
  \/ \E i \in Attempts : attempt_drop(i)

Spec == Init /\ [][Next]_vars

\* register_identity on one builder, under each of the three metadata.
InitLitentry == InitBuilt(Metadatas, MaxShared)

NextLitentry ==
  \/ \E n \in Seeds : xt_some("c1", "x1", "Alice", n)
  \/ register_identity("x1")
  \/ submit("x1")
  \/ \E i \in Attempts : attempt_poll(i)
  \/ \E i \in Attempts : attempt_connect_ok(i)
  \/ \E i \in Attempts : attempt_connect_err(i)
  \/ \E i \in Attempts : attempt_rpc_ok(i)
  \/ \E i \in Attempts : attempt_rpc_err(i)

SpecLitentry == InitLitentry /\ [][NextLitentry]_vars

\* A client, its clone, reads and submissions on both while the node is
\* restarted on another chain.
InitImmutable == InitBuilt({MetaFull}, MaxShared)

NextImmutable ==
  \/ node_restart
  \/ client_clone("c1", "c2")
  \/ \E c \in ClientIds : fetch(c, "set")
  \/ \E c \in ClientIds : subscribe_blocks(c)
  \/ \E i \in Reads : read_poll(i)
  \/ \E i \in Reads : read_connect_ok(i)
  \/ \E i \in Reads : read_connect_err(i)
  \/ \E i \in Reads : read_rpc_ok(i)
  \/ \E i \in Reads : read_rpc_err(i)
  \/ \E c \in ClientIds : xt_some(c, "x1", "Alice", 0)
  \/ submit("x1")
  \/ submit_and_watch("x1")
  \/ \E i \in Attempts : attempt_poll(i)
  \/ \E i \in Attempts : attempt_connect_ok(i)
  \/ \E i \in Attempts : attempt_connect_err(i)
  \/ \E i \in Attempts : attempt_rpc_ok(i)
  \/ \E i \in Attempts : attempt_rpc_err(i)

SpecImmutable == InitImmutable /\ [][NextImmutable]_vars

\* Two builders for one account, made from the client and from its clone:
\* the calls on each, and the futures up to a failed connect.
InitShared == InitBuilt({MetaFull}, MaxShared)

NextShared ==
  \/ client_clone("c1", "c2")
  \/ \E c \in ClientIds, b \in BuilderIds : xt_some(c, b, "Alice", 0)
  \/ \E b \in BuilderIds, n \in NonceInputs : set_nonce(b, n)
  \/ \E b \in BuilderIds : submit(b)
  \/ \E b \in BuilderIds : submit_and_watch(b)
  \/ \E i \in Attempts : attempt_poll(i)
  \/ \E i \in Attempts : attempt_connect_err(i)

SpecShared == InitShared /\ [][NextShared]_vars

\* Building the client and seeding builders either way.
InitXt == InitNew(Metadatas, 0)

NextXt ==
  \/ node_restart
  \/ build_poll
  \/ build_connect_ok
  \/ build_connect_err
  \/ build_fetch_ok
  \/ \E which \in Fetches : build_fetch_err(which)
  \/ client_clone("c1", "c2")
  \/ \E c \in ClientIds, b \in BuilderIds, s \in Signers, n \in Seeds :
       xt_some(c, b, s, n)
  \/ \E c \in ClientIds, b \in BuilderIds, s \in Signers : xt_none(c, b, s)
  \/ \E b \in BuilderIds : xt_poll(b)
  \/ \E b \in BuilderIds : xt_connect_ok(b)
  \/ \E b \in BuilderIds : xt_connect_err(b)
  \/ \E b \in BuilderIds : xt_rpc_ok(b)
  \/ \E b \in BuilderIds : xt_rpc_err(b)

SpecXt == InitXt /\ [][NextXt]_vars

\* Storage reads of a built client, each way of reading and each kind of
\* key, with every outcome of their futures.
InitReads == InitBuilt({MetaFull}, MaxShared)

NextReads ==
  \/ \E k \in StorageKeys : fetch("c1", k)
  \/ \E k \in StorageKeys, d \in CallerDefaults : fetch_or("c1", k, d)
  \/ \E k \in StorageKeys : fetch_or_default("c1", k)
  \/ \E i \in Reads : read_poll(i)
  \/ \E i \in Reads : read_connect_ok(i)
  \/ \E i \in Reads : read_connect_err(i)
  \/ \E i \in Reads : read_rpc_ok(i)
  \/ \E i \in Reads : read_rpc_err(i)
  \/ \E i \in Reads : read_decode_err(i)

SpecReads == InitReads /\ [][NextReads]_vars

\* Every call that touches the network, on one client and one builder, with
\* every outcome of the connect and of the request.
InitTransport == InitBuilt({MetaFull}, MaxShared)

NextTransport ==
  \/ fetch("c1", "set")
  \/ subscribe_events("c1")
  \/ subscribe_blocks("c1")
  \/ subscribe_finalized_blocks("c1")
  \/ \E i \in Reads : read_poll(i)
  \/ \E i \in Reads : read_connect_ok(i)
  \/ \E i \in Reads : read_connect_err(i)
  \/ \E i \in Reads : read_rpc_ok(i)
  \/ \E i \in Reads : read_rpc_err(i)
  \/ xt_some("c1", "x1", "Alice", 0)
  \/ submit("x1")
  \/ submit_and_watch("x1")
  \/ \E i \in Attempts : attempt_poll(i)
  \/ \E i \in Attempts : attempt_connect_ok(i)
  \/ \E i \in Attempts : attempt_connect_err(i)
  \/ \E i \in Attempts : attempt_rpc_ok(i)
  \/ \E i \in Attempts : attempt_rpc_err(i)

SpecTransport == InitTransport /\ [][NextTransport]_vars

\* The names and the values the caller passes to the metadata lookups.
ModuleNames == {"Balances", "Litentry", "Staking"}
CallNames == {"transfer", "set_balance", "register_identity"}
ItemNames == {"FreeBalance", "Locks", "Ledger"}
ArgLists == {<< >>, <<"addr", "amount">>, <<"amount", "addr">>}
MapKeys == {"X", "Y"}

\* A client built on each of the runtimes; calls are encoded and storage
\* keys derived from its metadata.
InitMetadata == InitBuilt({Parse(blob) : blob \in Blobs}, MaxShared)

NextMetadata ==
  \/ \E m \in ModuleNames, n \in CallNames, a \in ArgLists :
       metadata_call("c1", m, n, a)
  \/ \E m \in ModuleNames, i \in ItemNames, k \in MapKeys :
       metadata_key("c1", m, i, k)

SpecMetadata == InitMetadata /\ [][NextMetadata]_vars

\* ---------------------------------------------------------------- claims

\* Attempt i made the last write of its builder's nonce: no submission and
\* no set_nonce on that builder came after it.
LastWriter(i) == hist[attempts[i].b].last = i

\* The future failed in transport: the connect or the RPC call.
TransportFailed(a) == a.stage = "failed" /\ a.error \in {"connect", "rpc"}

\* C1: for every builder seeded with nonce s, after n submission calls with
\* no set_nonce in between nonce() equals s + n, whatever became of the
\* submissions.
C1_NonceIsSeedPlusCalls ==
  \A b \in BuilderIds :
    Ready(b) => nonce(b) = hist[b].base + hist[b].calls

\* C2: when a submission failed in transport the builder's nonce stays at
\* its incremented value, so that the next submission on that builder
\* transmits the old nonce plus one.
C2_FailureKeepsIncrement ==
  \A i \in Attempts :
    (TransportFailed(attempts[i]) /\ LastWriter(i))
      => nonce(attempts[i].b) = attempts[i].nonce + 1

\* C3: in no state has an attempt's connect or RPC been issued while the
\* builder's nonce still equals the value that attempt transmits: the nonce
\* was captured and advanced by one (in T::Index) inside the call, before
\* the future was first polled.
C3_AdvancedBeforeNetwork ==
  \A i \in Attempts :
    (attempts[i].connects + attempts[i].rpcs > 0 /\ LastWriter(i))
      => /\ nonce(attempts[i].b) # attempts[i].nonce
         /\ nonce(attempts[i].b) = IndexAdd(attempts[i].nonce, 1)

\* An attempt whose request is on the wire while it is still the last writer
\* of its builder's nonce.
C3_Witness ==
  \E i \in Attempts :
    /\ attempts[i].stage = "submitted"
    /\ attempts[i].rpcs = 1
    /\ LastWriter(i)

\* C4 as stated: while one submission from a builder is in flight on the
\* network, no later submission from the same builder has started its own
\* network activity.
C4_NeverInterleaved ==
  \A i, j \in Attempts :
    (/\ i < j
     /\ attempts[i].b = attempts[j].b
     /\ InFlight(attempts[i])
     /\ attempts[i].connects > 0)
      => attempts[j].connects = 0

\* C4, amended: submissions from one builder may be on the network at the
\* same time; what is serialized is the capture and advance of the nonce
\* inside each call, so two consecutive submissions never carry the same
\* nonce, whatever the stages of their futures.
C4_CaptureSerialized ==
  \A i, j \in Attempts :
    (/\ i < j
     /\ attempts[i].b = attempts[j].b
     /\ attempts[i].k >= 1
     /\ attempts[j].base = attempts[i].base
     /\ attempts[j].k = attempts[i].k + 1)
      => /\ attempts[j].nonce # attempts[i].nonce
         /\ attempts[j].nonce = IndexAdd(attempts[i].nonce, 1)

\* Two consecutive submissions of one builder, both with their request on
\* the wire.
C4_Witness ==
  \E i, j \in Attempts :
    /\ i < j
    /\ attempts[i].b = attempts[j].b
    /\ attempts[j].base = attempts[i].base
    /\ attempts[j].k = attempts[i].k + 1
    /\ attempts[i].stage = "submitted"
    /\ attempts[j].stage = "submitted"

\* C5: the k-th submission call on a builder seeded (or set) with s
\* transmits exactly s + k - 1.
C5_KthTransmits ==
  \A i \in Attempts :
    attempts[i].k >= 1
      => attempts[i].nonce = attempts[i].base + attempts[i].k - 1

\* C6 as stated: when a pending submission is dropped strictly before the
\* network write, the nonce increment is avoided.
C6_DropBeforeWriteAvoids ==
  \A i \in Attempts :
    (/\ attempts[i].stage = "dropped"
     /\ attempts[i].rpcs = 0
     /\ LastWriter(i))
      => nonce(attempts[i].b) = attempts[i].nonce

\* C6, amended: dropping a pending submission never changes the builder's
\* nonce; the increment made inside the call stands whether the drop came
\* before or after the network write.
C6_DropKeepsIncrement ==
  \A i \in Attempts :
    (attempts[i].stage = "dropped" /\ LastWriter(i))
      => nonce(attempts[i].b) = IndexAdd(attempts[i].nonce, 1)

\* A submission dropped after its request was written, and the builder's
\* latest submission dropped before anything was written.
C6_Witness ==
  \E i, j \in Attempts :
    /\ attempts[i].stage = "dropped"
    /\ attempts[i].rpcs = 0
    /\ LastWriter(i)
    /\ attempts[j].stage = "dropped"
    /\ attempts[j].rpcs = 1

\* C7: when module "Litentry" or call "register_identity" is absent from
\* the builder's metadata, register_identity returns the lookup error and
\* makes no connect and no RPC request.
C7_LookupFailsOffline ==
  \A i \in Attempts :
    attempts[i].via = "register_identity" =>
      LET a == attempts[i]
          md == builders[a.b].client.metadata
      IN  /\ "Litentry" \notin DOMAIN md
               => /\ a.stage = "failed"
                  /\ a.error = "ModuleNotFound"
                  /\ a.connects = 0
                  /\ a.rpcs = 0
          /\ ("Litentry" \in DOMAIN md
                /\ "register_identity" \notin DOMAIN md["Litentry"].calls)
               => /\ a.stage = "failed"
                  /\ a.error = "CallNotFound"
                  /\ a.connects = 0
                  /\ a.rpcs = 0

\* register_identity has returned the lookup error on a builder whose plain
\* submission did reach the node.
C7_Witness ==
  \E i, j \in Attempts :
    /\ attempts[i].via = "register_identity"
    /\ attempts[i].stage = "failed"
    /\ attempts[i].error \in {"ModuleNotFound", "CallNotFound"}
    /\ attempts[j].via = "submit"
    /\ attempts[j].b = attempts[i].b
    /\ attempts[j].rpcs = 1

\* C8: the metadata and the genesis hash of the Client and of every clone
\* (the one each builder holds included) equal the values fetched at build,
\* and every submission carries that genesis hash.
C8_Immutable ==
  /\ \A c \in ClientIds : Built(c) => clients[c] = fetched
  /\ \A b \in BuilderIds :
       builders[b] # NoBuilder => builders[b].client = fetched
  /\ \A i \in Attempts : attempts[i].genesis_hash = fetched.genesis_hash

\* The node was restarted on another chain, the client was cloned, a builder
\* was made and a submission of it was accepted.
C8_Witness ==
  /\ node.genesis = "g2"
  /\ node.metadata # fetched.metadata
  /\ Built("c2")
  /\ \E i \in Attempts : attempts[i].stage = "done"

\* C9: a step that is not a call on builder b (a submit, submit_and_watch
\* or set_nonce on another builder, or a step of any future) leaves b, and
\* so b's nonce, unchanged.
C9_OtherBuildersUntouched ==
  [][\A b \in BuilderIds :
       (Ready(b) /\ hist'[b] = hist[b]) => builders'[b] = builders[b]]_vars

\* Two builders made from a client and its clone, with different nonces
\* after submissions on both.
C9_Witness ==
  /\ Built("c2")
  /\ Ready("x1")
  /\ Ready("x2")
  /\ nonce("x1") # nonce("x2")
  /\ \E i, j \in Attempts : attempts[i].b = "x1" /\ attempts[j].b = "x2"

\* C10: a builder made with Some(n) has nonce n and made no network access;
\* a builder made with None has the account nonce the node holds for the
\* signer, got by one request on one connection; while that query is
\* pending or after it failed there is no builder and no nonce.
C10_Seeding ==
  \A b \in BuilderIds :
    builders[b] # NoBuilder =>
      /\ (Ready(b) /\ builders[b].asked.some)
           => /\ nonce(b) = builders[b].asked.value
              /\ builders[b].connects = 0
              /\ builders[b].rpcs = 0
      /\ (Ready(b) /\ ~builders[b].asked.some)
           => /\ nonce(b) = node.nonce[builders[b].signer]
              /\ builders[b].connects = 1
              /\ builders[b].rpcs = 1
      /\ ~Ready(b)
           => /\ ~builders[b].asked.some
              /\ nonce(b) = NoNonce
      /\ builders[b].stage = "failed"
           => builders[b].error \in {"connect", "rpc"}

\* One builder seeded by the caller, one seeded from the node, and the two
\* nonces as asked.
C10_Witness ==
  \E b, d \in BuilderIds :
    /\ Ready(b)
    /\ builders[b].asked = Some(IndexMax - 1)
    /\ nonce(b) = IndexMax - 1
    /\ Ready(d)
    /\ builders[d].asked = None
    /\ nonce(d) = NodeNonces[builders[d].signer]

\* C11: fetch_or_default on an absent key returns the type's default value
\* and on a present key the stored value; fetch_or does the same with the
\* default the caller passed.
C11_DefaultOnlyWhenAbsent ==
  \A i \in Reads :
    LET r == reads[i]
        stored == node.storage[r.key]
    IN  /\ (r.kind = "fetch_or_default" /\ r.stage = "done")
             => r.result = IF stored.some THEN stored.value ELSE DefaultValue
        /\ (r.kind = "fetch_or" /\ r.stage = "done")
             => r.result = IF stored.some THEN stored.value ELSE r.default

\* fetch_or_default on the unset key gave the default, and fetch_or on a set
\* key gave the stored value although a default was passed.
C11_Witness ==
  \E i, j \in Reads :
    /\ reads[i].kind = "fetch_or_default"
    /\ reads[i].key = "unset"
    /\ reads[i].stage = "done"
    /\ reads[i].result = DefaultValue
    /\ reads[j].kind = "fetch_or"
    /\ reads[j].key = "set"
    /\ reads[j].default = "d1"
    /\ reads[j].stage = "done"
    /\ reads[j].result = "v"

\* C12: fetch answers Ok with the Option the node holds, None on an unset
\* key; a connect, RPC or decoding failure makes every read fail with that
\* error and yield no item, the default included.
C12_AbsentIsNotError ==
  \A i \in Reads :
    LET r == reads[i]
    IN  /\ r.stage = "done"
             => /\ r.error = ""
                /\ r.rpcs = 1
                /\ r.kind = "fetch" => r.result = node.storage[r.key]
        /\ r.error # ""
             => /\ r.stage = "failed"
                /\ r.result = NoResult
                /\ r.error \in {"connect", "rpc", "decode"}
        /\ r.stage = "failed" => r.error # ""

\* fetch on the unset key succeeded with None while a fetch_or_default
\* failed.
C12_Witness ==
  \E i, j \in Reads :
    /\ reads[i].kind = "fetch"
    /\ reads[i].key = "unset"
    /\ reads[i].stage = "done"
    /\ reads[i].result = None
    /\ reads[j].kind = "fetch_or_default"
    /\ reads[j].stage = "failed"

\* The connects and the requests a future has made are those of one try.
OneTry(f) ==
  /\ f.connects <= 1
  /\ f.rpcs <= f.connects
  /\ f.stage # "created" => f.connects = 1
  /\ f.stage \in {"submitted", "done"} => f.rpcs = 1
  /\ (f.stage = "failed" /\ f.error = "connect") => f.rpcs = 0
  /\ (f.stage = "failed" /\ f.error = "rpc") => f.rpcs = 1

\* C13: each call of fetch, subscribe_*, submit or submit_and_watch makes one
\* connect attempt and at most one RPC request, also when the connect or the
\* request fails.
C13_NoRetries ==
  /\ \A i \in Reads : OneTry(reads[i])
  /\ \A i \in Attempts : OneTry(attempts[i])

\* A read whose connect failed and a submission whose request failed.
C13_Witness ==
  /\ \E i \in Reads :
       /\ reads[i].stage = "failed"
       /\ reads[i].error = "connect"
       /\ reads[i].connects = 1
  /\ \E i \in Attempts :
       /\ attempts[i].stage = "failed"
       /\ attempts[i].error = "rpc"
       /\ attempts[i].rpcs = 1

\* The module a runtime declares under a name.
Declared(blob, m) == CHOOSE d \in Range(blob) : d.name = m

\* The encoding of a call by the runtime's own call type: the position of
\* the module in the runtime, the position of the call in the module, then
\* the arguments (node_runtime::Call::Balances(transfer).encode(),
\* lib.rs:400-401).
RuntimeCall(blob, m, name, args) ==
  <<PositionOf(blob, Declared(blob, m)),
    PositionOf(Declared(blob, m).calls, name)>> \o args

key_for(m, item, k) == <<m, " ", item>> \o <<k>>

\* The hasher a runtime declares for a storage item.
DeclaredHasher(blob, m, item) ==
  (CHOOSE t \in Range(Declared(blob, m).storage) : t.name = item).hasher

Terminal == {"done", "failed", "dropped"}

\* The steps of a submission future: first poll, connect up and request
\* sent, and the ends (lib.rs:257-259, 271-273).
StageOrder ==
  {<<"created", "connecting">>, <<"connecting", "submitted">>,
   <<"connecting", "failed">>, <<"submitted", "done">>,
   <<"submitted", "failed">>, <<"created", "dropped">>,
   <<"connecting", "dropped">>, <<"submitted", "dropped">>}

\* C16 as stated: a submission attempt ends only after it was submitted (no
\* attempt is done or failed without its submit RPC having been issued), the
\* submit RPC is issued only after the attempt's connect, and the
\* fire-and-forget path ends in Done only.
C16_TerminalOnlyAfterSubmitted ==
  \A i \in Attempts :
    LET a == attempts[i]
    IN  /\ a.stage \in {"done", "failed"} => a.rpcs = 1
        /\ a.rpcs > 0 => a.connects = 1
        /\ a.stage = "failed" => a.kind = "watch"

\* C16, amended: an attempt succeeds only after its submit RPC was issued,
\* the RPC is issued once and only on the success of the attempt's one
\* connect, stages follow created, connecting, submitted, and a resolved
\* attempt never changes again (one outcome); but an attempt of either path
\* may fail before it is submitted: on the connect (no RPC issued) or, for
\* register_identity, on the lookup (no connect issued).
C16_OneOutcomeInOrder ==
  /\ [](\A i \in Attempts :
         LET a == attempts[i]
         IN  /\ a.connects <= 1 /\ a.rpcs <= 1
             /\ a.rpcs > 0 => a.connects = 1
             /\ a.stage = "created" => a.connects = 0
             /\ a.stage = "connecting" => a.connects = 1 /\ a.rpcs = 0
             /\ a.stage \in {"submitted", "done"} => a.rpcs = 1
             /\ a.stage = "failed" =>
                  \/ a.error = "rpc" /\ a.rpcs = 1
                  \/ a.error = "connect" /\ a.connects = 1 /\ a.rpcs = 0
                  \/ /\ a.error \notin {"rpc", "connect"}
                     /\ a.connects = 0 /\ a.rpcs = 0)
  /\ [][\A i \in Attempts :
          LET a == attempts[i]
              n == attempts'[i]
          IN  /\ a.stage \in Terminal => n = a
              /\ n.stage # a.stage => <<a.stage, n.stage>> \in StageOrder
              /\ n.rpcs # a.rpcs =>
                   /\ a.stage = "connecting" /\ n.stage = "submitted"
                   /\ n.rpcs = a.rpcs + 1]_vars

\* A fire-and-forget attempt failed on its connect, with no RPC issued,
\* and a watch attempt is done.
C16_Witness ==
  \E i, j \in Attempts :
    /\ attempts[i].kind = "submit"
    /\ attempts[i].stage = "failed"
    /\ attempts[i].error = "connect"
    /\ attempts[i].rpcs = 0
    /\ attempts[j].kind = "watch"
    /\ attempts[j].stage = "done"
    /\ attempts[j].rpcs = 1

\* C17: set_nonce(n) followed by nonce() returns n, and after set_nonce(n)
\* the next submission on that builder transmits n and leaves nonce() at
\* n + 1, whatever submissions of the builder are still in flight.
C17_SetThenSubmit ==
  /\ \A b \in BuilderIds :
       (Ready(b) /\ hist[b].calls = 0) => nonce(b) = hist[b].base
  /\ \A i \in Attempts :
       attempts[i].k = 1 =>
         /\ attempts[i].nonce = attempts[i].base
         /\ LastWriter(i) => nonce(attempts[i].b) = attempts[i].base + 1

\* C18: a register_identity whose lookup fails leaves the builder as it
\* was; one whose lookup succeeds makes a single submission and advances
\* the builder's nonce by exactly one.
C18_LookupConsumesNoNonce ==
  [][\A b \in BuilderIds :
       (/\ Len(attempts') = Len(attempts) + 1
        /\ attempts'[Len(attempts')].via = "register_identity"
        /\ attempts'[Len(attempts')].b = b)
         => IF attempts'[Len(attempts')].stage = "failed"
            THEN builders' = builders
            ELSE /\ attempts'[Len(attempts')].nonce = nonce(b)
                 /\ builders'[b].nonce = nonce(b) + 1]_vars

\* C20: the builder's nonce is strictly increasing across submissions for
\* every value of Index: after a submission the nonce is larger than the
\* nonce that submission transmits, and of two consecutive submissions the
\* later transmits the larger nonce; no submission wraps the nonce around.
C20_StrictlyIncreasing ==
  /\ \A i \in Attempts :
       (attempts[i].k >= 1 /\ LastWriter(i))
         => nonce(attempts[i].b) > attempts[i].nonce
  /\ \A i, j \in Attempts :
       (/\ attempts[i].b = attempts[j].b
        /\ attempts[i].k >= 1
        /\ attempts[j].base = attempts[i].base
        /\ attempts[j].k = attempts[i].k + 1
        /\ i < j)
         => attempts[j].nonce > attempts[i].nonce

\* C19: build yields a Client only when the connect, the metadata fetch and
\* the genesis-hash fetch all succeeded, the two fetches made over the one
\* connection build opened; the Client holds the two answers of the node;
\* when the connect or either fetch fails build ends in that error and no
\* Client exists.
C19_ClientOnlyWhenAllSucceed ==
  /\ [](/\ (build.stage = "done") <=> (fetched # NoClient)
        /\ build.stage # "done" => \A c \in ClientIds : clients[c] = NoClient
        /\ build.stage = "done" =>
             /\ build.connects = 1 /\ build.rpcs = 2 /\ build.error = ""
             /\ fetched.state = "built"
             /\ fetched.metadata \in Metadatas
             /\ fetched.genesis_hash \in {"g1", "g2"}
        /\ build.stage = "failed" =>
             \/ build.error = "connect" /\ build.connects = 1 /\ build.rpcs = 0
             \/ build.error \in Fetches /\ build.connects = 1 /\ build.rpcs = 2
        /\ build.rpcs > 0 => build.connects = 1)
  /\ [][(build.stage # "done" /\ build'.stage = "done") =>
          /\ build.stage = "fetching"
          /\ fetched'.metadata = node.metadata
          /\ fetched'.genesis_hash = node.genesis
          /\ clients'["c1"] = fetched']_vars

\* A build that succeeded against a restarted node.
C19_Witness ==
  /\ build.stage = "done"
  /\ fetched.genesis_hash = "g2"
  /\ fetched.metadata = node.metadata
  /\ clients["c1"] = fetched

====
